---- MODULE Spec2Model ----
(***************************************************************************)
(* State-machine model of day-one-to-md (src/src/main.js): the in-browser  *)
(* converter of a Day One export (Journal.json, or a .zip holding it) into *)
(* one chronological markdown document.                                    *)
(*                                                                         *)
(* The handlers that only open the file dialog (click, keydown) or toggle  *)
(* the "drag" class (dragover, dragleave) change nothing modelled here.    *)
(* lastWriter and lastEnd record history: which invocation wrote last, and *)
(* whether the step just taken ended an attempt.                           *)
(*                                                                         *)
(* JavaScript strings are sequences of one-character strings.  Instants    *)
(* are whole seconds since 1970-01-01T00:00:00Z (the code's millisecond    *)
(* values divided by 1000: the modelled date strings carry no fraction of  *)
(* a second, and TLC's integers are 32 bits wide).                         *)
(***************************************************************************)
EXTENDS Integers, Sequences, FiniteSets, TLC

VARIABLES
  currentMarkdown,    \* let currentMarkdown (main.js:12)
  previewValue,       \* preview.value
  copyDisabled,       \* copyBtn.disabled
  downloadDisabled,   \* downloadBtn.disabled
  statusClass,        \* statusText.className
  statusTextContent,  \* statusText.textContent
  metaTextContent,    \* meta.textContent
  processing,         \* dropZone.classList contains "processing"
  fileInputValue,     \* fileInput.value is non-empty (a file is selected)
  inflight,           \* the suspended processFile invocations
  nextId,             \* number of processFile invocations started so far
  lastWriter,         \* id of the invocation that last wrote output and status
  clipboard,          \* what navigator.clipboard holds
  downloaded,         \* contents of the last downloaded blob
  copying,            \* texts of the clipboard writes not yet settled
  lastEnd,            \* how the step just taken ended an attempt, if it did
  arg,                \* pure-function specifications: the input
  ret,                \* pure-function specifications: the result
  phase               \* pure-function specifications: position

vars == <<currentMarkdown, previewValue, copyDisabled, downloadDisabled,
          statusClass, statusTextContent, metaTextContent, processing,
          fileInputValue, inflight, nextId, lastWriter, clipboard, downloaded,
          copying, lastEnd, arg, ret, phase>>

uiVars == <<currentMarkdown, previewValue, copyDisabled, downloadDisabled,
            statusClass, statusTextContent, metaTextContent, processing,
            fileInputValue, inflight, nextId, lastWriter, clipboard, downloaded,
            copying, lastEnd>>

-----------------------------------------------------------------------------
(* Strings *)

BS == "\\"
SP == " "
NL == "\n"

IsSpace(c) == c \in {SP, NL}

RECURSIVE TrimStart(_)
TrimStart(s) ==
  IF s # <<>> /\ IsSpace(Head(s)) THEN TrimStart(Tail(s)) ELSE s

RECURSIVE TrimEnd(_)
TrimEnd(s) ==
  IF s # <<>> /\ IsSpace(s[Len(s)]) THEN TrimEnd(SubSeq(s, 1, Len(s) - 1)) ELSE s

\* String.prototype.trim
Trim(s) == TrimEnd(TrimStart(s))

\* String.prototype.toLowerCase, on the letters the modelled names use
LowerChar(c) ==
  CASE c = "J" -> "j" [] c = "O" -> "o" [] c = "U" -> "u" [] c = "R" -> "r"
    [] c = "N" -> "n" [] c = "A" -> "a" [] c = "L" -> "l" [] c = "S" -> "s"
    [] c = "Z" -> "z" [] c = "I" -> "i" [] c = "P" -> "p" [] c = "E" -> "e"
    [] c = "X" -> "x" [] c = "T" -> "t"
    [] OTHER -> c

ToLowerCase(s) == [i \in 1..Len(s) |-> LowerChar(s[i])]

\* String.prototype.endsWith
EndsWith(s, suffix) ==
  /\ Len(suffix) <= Len(s)
  /\ SubSeq(s, Len(s) - Len(suffix) + 1, Len(s)) = suffix

RECURSIVE Join(_, _)
\* Array.prototype.join
Join(parts, sep) ==
  IF parts = <<>> THEN <<>>
  ELSE IF Len(parts) = 1 THEN parts[1]
  ELSE parts[1] \o sep \o Join(Tail(parts), sep)

-----------------------------------------------------------------------------
(* cleanupText: text.replace(/\\([.-])/g, "$1"), one left-to-right pass *)

\* A plausible bug: the g flag is missing, so only the first match is replaced.
RECURSIVE CleanupTextFirstOnly(_)
CleanupTextFirstOnly(text) ==
  IF text = <<>> THEN <<>>
  ELSE IF Len(text) >= 2 /\ text[1] = BS /\ text[2] \in {".", "-"}
       THEN <<text[2]>> \o SubSeq(text, 3, Len(text))
       ELSE <<text[1]>> \o CleanupTextFirstOnly(Tail(text))

RECURSIVE CleanupText(_)
CleanupText(text) ==
  IF text = <<>> THEN <<>>
  ELSE IF Len(text) >= 2 /\ text[1] = BS /\ text[2] \in {".", "-"}
       THEN <<text[2]>> \o CleanupText(SubSeq(text, 3, Len(text)))
       ELSE <<text[1]>> \o CleanupText(Tail(text))

-----------------------------------------------------------------------------
(* Dates.  A date field of an entry is a JavaScript value:                 *)
(*   undefined  the field is absent                                        *)
(*   empty      the string ""                                              *)
(*   garbage    a non-empty string that is no date ("not a date")          *)
(*   iso        the string "Y-M-DTh:m:sZ" with the fields Y, M, D, h, m, s *)

\* The result of Date.parse is <<t>> for the instant t, or NaN
NaN == <<>>

NoDate(tag) == [tag |-> tag, Y |-> 0, M |-> 0, D |-> 0, h |-> 0, m |-> 0, s |-> 0]
Undefined == NoDate("undefined")
EmptyString == NoDate("empty")
Garbage == NoDate("garbage")
Iso(Y, M, D, h, m, s) ==
  [tag |-> "iso", Y |-> Y, M |-> M, D |-> D, h |-> h, m |-> m, s |-> s]

\* JavaScript truthiness of a date field
Truthy(v) == v.tag \notin {"undefined", "empty"}

\* a || b
Or(a, b) == IF Truthy(a) THEN a ELSE b

IsLeap(y) == (y % 4 = 0 /\ y % 100 # 0) \/ y % 400 = 0

DaysInMonth(y, mo) ==
  IF mo = 2 THEN (IF IsLeap(y) THEN 29 ELSE 28)
  ELSE IF mo \in {4, 6, 9, 11} THEN 30 ELSE 31

\* Days since 1970-01-01 of a civil date (ECMAScript MakeDay)
DaysFromCivil(y, mo, d) ==
  LET yy  == IF mo <= 2 THEN y - 1 ELSE y
      era == yy \div 400
      yoe == yy - era * 400
      mp  == IF mo > 2 THEN mo - 3 ELSE mo + 9
      doy == (153 * mp + 2) \div 5 + d - 1
      doe == yoe * 365 + yoe \div 4 - yoe \div 100 + doy
  IN  era * 146097 + doe - 719468

\* The civil date <<year, month, day>> of a day number (YearFromTime,
\* MonthFromTime, DateFromTime)
CivilFromDays(z0) ==
  LET z   == z0 + 719468
      era == z \div 146097
      doe == z - era * 146097
      yoe == (doe - doe \div 1460 + doe \div 36524 - doe \div 146096) \div 365
      doy == doe - (365 * yoe + yoe \div 4 - yoe \div 100)
      mp  == (5 * doy + 2) \div 153
      d   == doy - (153 * mp + 2) \div 5 + 1
      mo  == IF mp < 10 THEN mp + 3 ELSE mp - 9
      y   == yoe + era * 400 + (IF mo <= 2 THEN 1 ELSE 0)
  IN  <<y, mo, d>>

\* Date.parse of a value (converted to a string first): the instant, or NaN
DateParse(v) ==
  IF /\ v.tag = "iso"
     /\ v.M \in 1..12 /\ v.D \in 1..DaysInMonth(v.Y, v.M)
     /\ v.h \in 0..23 /\ v.m \in 0..59 /\ v.s \in 0..59
  THEN <<DaysFromCivil(v.Y, v.M, v.D) * 86400 + v.h * 3600 + v.m * 60 + v.s>>
  ELSE NaN

DigitChar(n) == <<"0", "1", "2", "3", "4", "5", "6", "7", "8", "9">>[n + 1]

RECURSIVE Digits(_)
\* String(n) for n >= 0
Digits(n) ==
  IF n < 10 THEN <<DigitChar(n)>> ELSE Digits(n \div 10) \o <<DigitChar(n % 10)>>

\* pad: String(value).padStart(2, "0")
Pad(value) ==
  LET str == Digits(value) IN IF Len(str) < 2 THEN <<"0">> \o str ELSE str

\* The literal "1970-01-01 00-00-00" of formatTimestamp
EpochHeader ==
  <<"1", "9", "7", "0", "-", "0", "1", "-", "0", "1", " ",
    "0", "0", "-", "0", "0", "-", "0", "0">>

\* A plausible bug: the local time of a zone one hour east of UTC is shown.
FormatTimestampLocal(value) ==
  LET date == IF Truthy(value) THEN DateParse(value) ELSE <<0>>
  IN  IF date = NaN THEN EpochHeader
      ELSE LET t   == date[1] + 3600
               ymd == CivilFromDays(t \div 86400)
               sec == t % 86400
           IN  Digits(ymd[1]) \o <<"-">> \o Pad(ymd[2]) \o <<"-">> \o Pad(ymd[3])
                 \o <<" ">> \o Pad(sec \div 3600) \o <<"-">>
                 \o Pad((sec % 3600) \div 60) \o <<"-">> \o Pad(sec % 60)

\* formatTimestamp(value)
FormatTimestamp(value) ==
  LET date == IF Truthy(value) THEN DateParse(value) ELSE <<0>>
  IN  IF date = NaN THEN EpochHeader
      ELSE LET ymd == CivilFromDays(date[1] \div 86400)
               sec == date[1] % 86400
           IN  Digits(ymd[1]) \o <<"-">> \o Pad(ymd[2]) \o <<"-">> \o Pad(ymd[3])
                 \o <<" ">> \o Pad(sec \div 3600) \o <<"-">>
                 \o Pad((sec % 3600) \div 60) \o <<"-">> \o Pad(sec % 60)

-----------------------------------------------------------------------------
(* Entries.  An element of journal.entries is null, or an object (or a     *)
(* primitive, which reads like an object without fields) with the fields   *)
(* creationDate, modifiedDate, text and richText.                          *)
(*   text:     [tag: undefined | nonstring | str, chars]                   *)
(*   richText: [tag: undefined | nonstring | blank | invalid | json,       *)
(*              isArray, contents]: a blank string, a string JSON.parse    *)
(*              rejects, or a string that parses to a value whose          *)
(*              contents is (isArray) the array of parts `contents`, each  *)
(*              part's text being a text value.                            *)

TextUndefined == [tag |-> "undefined", chars |-> <<>>]
TextNonString == [tag |-> "nonstring", chars |-> <<>>]
TextStr(chars) == [tag |-> "str", chars |-> chars]

Rich(tag, isArray, contents) ==
  [tag |-> tag, isArray |-> isArray, contents |-> contents]
RichUndefined == Rich("undefined", FALSE, <<>>)
RichNonString == Rich("nonstring", FALSE, <<>>)
RichBlank == Rich("blank", FALSE, <<>>)
RichInvalid == Rich("invalid", FALSE, <<>>)
RichNoContents == Rich("json", FALSE, <<>>)
RichJson(contents) == Rich("json", TRUE, contents)

Entry(c, m, t, r) ==
  [nul |-> FALSE, creationDate |-> c, modifiedDate |-> m, text |-> t, richText |-> r]
NullEntry ==
  [nul |-> TRUE, creationDate |-> Undefined, modifiedDate |-> Undefined,
   text |-> TextUndefined, richText |-> RichUndefined]

NoContent == <<"[", "N", "o", " ", "c", "o", "n", "t", "e", "n", "t", "]">>

\* parts.map((part) => typeof part?.text === "string" ? part.text : "").join("")
PartsText(contents) ==
  Join([i \in 1..Len(contents) |->
          IF contents[i].tag = "str" THEN contents[i].chars ELSE <<>>], <<>>)

\* A plausible bug: the text is cleaned up but not trimmed.
GetEntryTextNoTrim(entry) ==
  LET text == IF entry.text.tag = "str" THEN entry.text.chars ELSE <<>>
      richText == entry.richText
  IN  IF Trim(text) # <<>> THEN CleanupText(text)
      ELSE IF richText.tag \in {"invalid", "json"}
      THEN IF richText.tag = "invalid" THEN NoContent
           ELSE LET chunks == IF richText.isArray
                              THEN PartsText(richText.contents) ELSE <<>>
                IN  IF chunks # <<>> THEN CleanupText(chunks) ELSE NoContent
      ELSE NoContent

\* getEntryText(entry); entry?.x of a null entry is undefined
GetEntryText(entry) ==
  LET text == IF entry.text.tag = "str" THEN entry.text.chars ELSE <<>>
      richText == entry.richText
  IN  IF Trim(text) # <<>> THEN CleanupText(Trim(text))
      ELSE IF richText.tag \in {"invalid", "json"}
      THEN IF richText.tag = "invalid" THEN NoContent
           ELSE LET chunks == IF richText.isArray
                              THEN Trim(PartsText(richText.contents)) ELSE <<>>
                IN  IF chunks # <<>> THEN CleanupText(chunks) ELSE NoContent
      ELSE NoContent

\* A plausible bug: an unparseable creationDate falls back to modifiedDate.
ParseDateFallback(entry) ==
  LET c == DateParse(entry.creationDate)
      m == DateParse(entry.modifiedDate)
  IN  IF c # NaN THEN c[1] ELSE IF m # NaN THEN m[1] ELSE 0

\* parseDate(entry)
ParseDate(entry) ==
  LET raw   == Or(Or(entry.creationDate, entry.modifiedDate), EmptyString)
      value == DateParse(raw)
  IN  IF value = NaN THEN 0 ELSE value[1]

\* A plausible bug: equal elements are moved (an unstable sort).
RECURSIVE InsertUnstable(_, _)
InsertUnstable(sorted, e) ==
  IF sorted # <<>> /\ ParseDate(sorted[Len(sorted)]) - ParseDate(e) >= 0
  THEN Append(InsertUnstable(SubSeq(sorted, 1, Len(sorted) - 1), e), sorted[Len(sorted)])
  ELSE Append(sorted, e)

RECURSIVE Insert(_, _)
\* One step of the stable Array.prototype.sort with the comparator
\* (a, b) => parseDate(a) - parseDate(b): e goes after every element that
\* does not compare greater than it.
Insert(sorted, e) ==
  IF sorted # <<>> /\ ParseDate(sorted[Len(sorted)]) - ParseDate(e) > 0
  THEN Append(Insert(SubSeq(sorted, 1, Len(sorted) - 1), e), sorted[Len(sorted)])
  ELSE Append(sorted, e)

RECURSIVE SortEntries(_)
\* sortEntries(entries): a sorted copy
SortEntries(entries) ==
  IF entries = <<>> THEN <<>>
  ELSE Insert(SortEntries(SubSeq(entries, 1, Len(entries) - 1)), entries[Len(entries)])

\* One section of toMarkdown: `# ${title}\n\n${body}`.trim()
Section(entry) ==
  LET title == FormatTimestamp(Or(entry.creationDate, entry.modifiedDate))
      body  == GetEntryText(entry)
  IN  Trim(<<"#", " ">> \o title \o <<NL, NL>> \o body)

Separator == <<NL, NL, "-", "-", "-", NL, NL>>

\* toMarkdown(entries): reading entry.creationDate of a null entry throws a
\* TypeError, which ends the map.
ToMarkdown(entries) ==
  LET sorted == SortEntries(entries)
  IN  IF \E i \in 1..Len(sorted) : sorted[i].nul
      THEN [threw |-> TRUE, sections |-> <<>>, markdown |-> <<>>]
      ELSE LET sections == [i \in 1..Len(sorted) |-> Section(sorted[i])]
           IN  [threw |-> FALSE, sections |-> sections,
                markdown |-> Join(sections, Separator)]

-----------------------------------------------------------------------------
(* The Source Locator of parseJournalFromZip: the names of zip.files in    *)
(* enumeration order -> the name of the stream to parse.                   *)

JournalJson == <<"j", "o", "u", "r", "n", "a", "l", ".", "j", "s", "o", "n">>

\* fileName.toLowerCase().endsWith("journal.json")
IsCandidate(fileName) == EndsWith(ToLowerCase(fileName), JournalJson)

\* A plausible bug: the comparator is reversed (b.length - a.length).
RECURSIVE InsertByLengthDesc(_, _)
InsertByLengthDesc(sorted, a) ==
  IF sorted # <<>> /\ Len(a) - Len(sorted[Len(sorted)]) > 0
  THEN Append(InsertByLengthDesc(SubSeq(sorted, 1, Len(sorted) - 1), a),
              sorted[Len(sorted)])
  ELSE Append(sorted, a)

RECURSIVE InsertByLength(_, _)
\* One step of the stable candidates.sort((a, b) => a.length - b.length)
InsertByLength(sorted, a) ==
  IF sorted # <<>> /\ Len(sorted[Len(sorted)]) - Len(a) > 0
  THEN Append(InsertByLength(SubSeq(sorted, 1, Len(sorted) - 1), a),
              sorted[Len(sorted)])
  ELSE Append(sorted, a)

RECURSIVE SortByLength(_)
SortByLength(candidates) ==
  IF candidates = <<>> THEN <<>>
  ELSE InsertByLength(SortByLength(SubSeq(candidates, 1, Len(candidates) - 1)),
                      candidates[Len(candidates)])

NoJournalInZip == "No Journal.json found in zip export"

\* parseJournalFromZip, lines 148-162: the candidate chosen, or the error
\* thrown when there is none
LocateJournal(fileNames) ==
  LET candidates == SelectSeq(fileNames, IsCandidate)
  IN  IF candidates = <<>>
      THEN [found |-> FALSE, name |-> <<>>, error |-> NoJournalInZip]
      ELSE [found |-> TRUE, name |-> SortByLength(candidates)[1], error |-> ""]

-----------------------------------------------------------------------------
(* processFile after the document is parsed (lines 120-139).  A parsed     *)
(* document is [kind: null | noentries | entries, entries]: null (or       *)
(* another primitive), an object whose entries is no array, or an object   *)
(* with the array `entries`.                                               *)

JournalNull == [kind |-> "null", entries |-> <<>>]
JournalNoEntries == [kind |-> "noentries", entries |-> <<>>]
Journal(entries) == [kind |-> "entries", entries |-> entries]

NoEntriesFound == "No entries found in Journal.json"
CouldNotBuild == "Could not build markdown output from entries"
TypeErrorMessage == "TypeError: Cannot read properties of null (reading 'creationDate')"
SyntaxErrorMessage == "SyntaxError: JSON.parse"
ZipErrorMessage == "Error: Can't find end of central directory"
UnsupportedFileType == "Unsupported file type. Use Day One .zip or Journal.json"

Failure(message) ==
  [ok |-> FALSE, message |-> message, markdown |-> <<>>, count |-> 0,
   first |-> <<>>, last |-> <<>>]

\* The outcome of lines 120-139 on a parsed document: the error caught at
\* line 140, or the markdown with the summary's entry count and range.
Convert(journal) ==
  LET entries == IF journal.kind = "entries" THEN journal.entries ELSE <<>>
  IN  IF Len(entries) = 0 THEN Failure(NoEntriesFound)
      ELSE LET md == ToMarkdown(entries)
           IN  IF md.threw THEN Failure(TypeErrorMessage)
               ELSE IF Trim(md.markdown) = <<>> THEN Failure(CouldNotBuild)
               ELSE LET sortedEntries == SortEntries(entries)
                    IN  [ok |-> TRUE, message |-> "Done", markdown |-> md.markdown,
                         count |-> Len(entries),
                         first |-> FormatTimestamp(sortedEntries[1].creationDate),
                         last |-> FormatTimestamp(
                                    sortedEntries[Len(sortedEntries)].creationDate)]

-----------------------------------------------------------------------------
(* The page: its state, the files a user may select, and the handlers.     *)
(* A file is [name, loads, parses, journal, archive]: a .json file's text  *)
(* parses (or not) to `journal`; a .zip file loads (or not) to `archive`,  *)
(* the streams [name, parses, journal] in enumeration order.               *)

MaxAttempts == 2

StatusPlain == "status-text"
StatusSuccess == "status-text success"
StatusError == "status-text error"

Status(msg, count) == [msg |-> msg, count |-> count]
Meta(msg, first, last) == [msg |-> msg, first |-> first, last |-> last]
NoMeta == Meta("", <<>>, <<>>)

DotJson == <<".", "j", "s", "o", "n">>
DotZip == <<".", "z", "i", "p">>

IsoA == Iso(2023, 5, 1, 14, 3, 9)
IsoB == Iso(2020, 2, 29, 0, 0, 0)
IsoPre == Iso(1969, 12, 31, 23, 59, 59)
IsoBadMonth == Iso(2023, 13, 1, 0, 0, 0)

PlainEntry(c, m, chars) == Entry(c, m, TextStr(chars), RichUndefined)

JsonFile(name, parses, journal) ==
  [name |-> name, loads |-> FALSE, parses |-> parses, journal |-> journal,
   archive |-> <<>>]
ZipFile(name, loads, archive) ==
  [name |-> name, loads |-> loads, parses |-> FALSE, journal |-> JournalNull,
   archive |-> archive]
Stream(name, parses, journal) ==
  [name |-> name, parses |-> parses, journal |-> journal]

JournalOne == Journal(<<PlainEntry(IsoA, Undefined, <<"a">>)>>)
JournalTwo ==
  Journal(<<PlainEntry(IsoA, Undefined, <<"b">>),
            PlainEntry(Undefined, IsoB, <<"c">>)>>)

Files ==
  { JsonFile(<<"n", ".", "t", "x", "t">>, TRUE, JournalOne),
    JsonFile(<<"a", ".", "j", "s", "o", "n">>, TRUE, JournalOne),
    JsonFile(<<"B", ".", "J", "S", "O", "N">>, TRUE, JournalTwo),
    JsonFile(<<"c", ".", "j", "s", "o", "n">>, FALSE, JournalNull),
    JsonFile(<<"d", ".", "j", "s", "o", "n">>, TRUE, Journal(<<>>)),
    JsonFile(<<"e", ".", "j", "s", "o", "n">>, TRUE, JournalNoEntries),
    JsonFile(<<"f", ".", "j", "s", "o", "n">>, TRUE, Journal(<<NullEntry>>)),
    ZipFile(<<"x", ".", "z", "i", "p">>, TRUE,
            << Stream(<<"E", "/">> \o JournalJson, TRUE, JournalTwo),
               Stream(<<"J", "o", "u", "r", "n", "a", "l", ".", "j", "s", "o", "n">>,
                      TRUE, JournalOne) >>),
    ZipFile(<<"y", ".", "z", "i", "p">>, TRUE,
            << Stream(<<"p", ".", "j", "p", "g">>, TRUE, JournalNull) >>),
    ZipFile(<<"Z", ".", "Z", "I", "P">>, TRUE,
            << Stream(JournalJson, FALSE, JournalNull) >>),
    ZipFile(<<"w", ".", "z", "i", "p">>, FALSE, <<>>) }

\* state.setProcessing()
SetProcessing ==
  /\ processing' = TRUE
  /\ statusClass' = StatusPlain
  /\ statusTextContent' = Status("Processing file...", 0)

\* state.setSuccess(`Done. ${count} entries converted.`)
SetSuccess(count) ==
  /\ processing' = FALSE
  /\ statusClass' = StatusSuccess
  /\ statusTextContent' = Status("Done", count)

\* state.setError(message)
SetError(message) ==
  /\ processing' = FALSE
  /\ statusClass' = StatusError
  /\ statusTextContent' = Status(message, 0)

\* A plausible bug: the held markdown is not cleared.
SetNoOutputKeepsMarkdown ==
  /\ UNCHANGED currentMarkdown
  /\ previewValue' = <<>>
  /\ metaTextContent' = NoMeta
  /\ copyDisabled' = TRUE
  /\ downloadDisabled' = TRUE

\* setNoOutput()
SetNoOutput ==
  /\ currentMarkdown' = <<>>
  /\ previewValue' = <<>>
  /\ metaTextContent' = NoMeta
  /\ copyDisabled' = TRUE
  /\ downloadDisabled' = TRUE

\* The end of processFile (lines 130-143) and of the handler that awaited
\* it: the change handler then clears fileInput.value.
Finish(inv, outcome) ==
  /\ IF outcome.ok
     THEN /\ currentMarkdown' = outcome.markdown
          /\ previewValue' = outcome.markdown
          /\ copyDisabled' = FALSE
          /\ downloadDisabled' = FALSE
          /\ SetSuccess(outcome.count)
          /\ metaTextContent' = Meta("Range", outcome.first, outcome.last)
     ELSE /\ SetNoOutput
          /\ SetError(IF outcome.message # "" THEN outcome.message
                      ELSE "Failed to process file")
  /\ inflight' = inflight \ {inv}
  /\ lastWriter' = inv.id
  /\ lastEnd' = IF outcome.ok THEN "success" ELSE "error"
  /\ fileInputValue' = IF inv.via = "change" THEN FALSE ELSE fileInputValue
  /\ UNCHANGED <<nextId, clipboard, downloaded, copying, arg, ret, phase>>

\* processFile(file) up to its first await, called by the drop handler
\* (via = "drop") or the change handler (via = "change")
Start(file, via) ==
  LET lowerName == ToLowerCase(file.name)
      isJson    == EndsWith(lowerName, DotJson)
      isZip     == EndsWith(lowerName, DotZip)
      id        == nextId + 1
  IN  /\ phase = "page"
      /\ nextId < MaxAttempts
      /\ nextId' = id
      /\ IF ~isJson /\ ~isZip
         THEN /\ SetNoOutput
              /\ SetError(UnsupportedFileType)
              /\ lastWriter' = id
              /\ lastEnd' = "error"
              /\ fileInputValue' = IF via = "change" THEN FALSE ELSE fileInputValue
              /\ UNCHANGED inflight
         ELSE /\ SetProcessing
              /\ inflight' = inflight \cup
                   {[id |-> id, file |-> file, via |-> via,
                     pc |-> IF isJson THEN "text" ELSE "load", stream |-> <<>>]}
              /\ lastEnd' = "none"
              /\ fileInputValue' = IF via = "change" THEN TRUE ELSE fileInputValue
              /\ UNCHANGED <<currentMarkdown, previewValue, metaTextContent,
                             copyDisabled, downloadDisabled, lastWriter>>
      /\ UNCHANGED <<clipboard, downloaded, copying, arg, ret, phase>>

\* dropZone "drop" handler with a file
Drop(file) == Start(file, "drop")

\* fileInput "change" handler with a file
Change(file) == Start(file, "change")

\* processFile resumes after `await file.text()`: JSON.parse and the rest
ResumeText(inv) ==
  /\ inv \in inflight /\ inv.pc = "text"
  /\ IF ~inv.file.parses THEN Finish(inv, Failure(SyntaxErrorMessage))
     ELSE Finish(inv, Convert(inv.file.journal))

\* parseJournalFromZip resumes after `await JSZip.loadAsync(file)` and runs
\* to `await journalFile.async("text")`, or throws
ResumeLoad(inv) ==
  /\ inv \in inflight /\ inv.pc = "load"
  /\ IF ~inv.file.loads THEN Finish(inv, Failure(ZipErrorMessage))
     ELSE LET fileNames == [i \in 1..Len(inv.file.archive) |-> inv.file.archive[i].name]
              located   == LocateJournal(fileNames)
          IN  IF ~located.found THEN Finish(inv, Failure(located.error))
              ELSE /\ inflight' = (inflight \ {inv}) \cup
                        {[inv EXCEPT !.pc = "entry", !.stream = located.name]}
                   /\ lastEnd' = "none"
                   /\ UNCHANGED <<currentMarkdown, previewValue, copyDisabled,
                                  downloadDisabled, statusClass, statusTextContent,
                                  metaTextContent, processing, fileInputValue, nextId,
                                  lastWriter, clipboard, downloaded, copying,
                                  arg, ret, phase>>

\* parseJournalFromZip resumes after `await journalFile.async("text")`:
\* JSON.parse, and processFile runs to its end
ResumeEntry(inv) ==
  /\ inv \in inflight /\ inv.pc = "entry"
  /\ LET journalFile ==
           CHOOSE st \in {inv.file.archive[i] : i \in 1..Len(inv.file.archive)} :
             st.name = inv.stream
     IN  IF ~journalFile.parses THEN Finish(inv, Failure(SyntaxErrorMessage))
         ELSE Finish(inv, Convert(journalFile.journal))

\* copyBtn "click" handler up to `await navigator.clipboard.writeText(...)`;
\* a disabled button receives no click
CopyClick ==
  /\ phase = "page"
  /\ ~copyDisabled
  /\ copying' = IF currentMarkdown = <<>> THEN copying
                ELSE copying \cup {currentMarkdown}
  /\ lastEnd' = "none"
  /\ UNCHANGED <<currentMarkdown, previewValue, copyDisabled, downloadDisabled,
                 statusClass, statusTextContent, metaTextContent, processing,
                 fileInputValue, inflight, nextId, lastWriter, clipboard,
                 downloaded, arg, ret, phase>>

\* the clipboard write settles: resolved, or rejected (permission blocked)
CopySettle(text, resolved) ==
  /\ text \in copying
  /\ copying' = copying \ {text}
  /\ IF resolved
     THEN /\ clipboard' = text
          /\ metaTextContent' = Meta("Copied markdown to clipboard.", <<>>, <<>>)
     ELSE /\ UNCHANGED clipboard
          /\ metaTextContent' =
               Meta("Clipboard permission blocked. Press Ctrl+C to copy selected output.",
                    <<>>, <<>>)
  /\ lastEnd' = "none"
  /\ UNCHANGED <<currentMarkdown, previewValue, copyDisabled, downloadDisabled,
                 statusClass, statusTextContent, processing, fileInputValue,
                 inflight, nextId, lastWriter, downloaded, arg, ret, phase>>

\* downloadBtn "click" handler
DownloadClick ==
  /\ phase = "page"
  /\ ~downloadDisabled
  /\ IF currentMarkdown = <<>>
     THEN UNCHANGED <<downloaded, metaTextContent>>
     ELSE /\ downloaded' = currentMarkdown
          /\ metaTextContent' = Meta("Downloaded markdown file.", <<>>, <<>>)
  /\ lastEnd' = "none"
  /\ UNCHANGED <<currentMarkdown, previewValue, copyDisabled, downloadDisabled,
                 statusClass, statusTextContent, processing, fileInputValue,
                 inflight, nextId, lastWriter, clipboard, copying, arg, ret, phase>>

\* The page after the module has run: state.setReady() (line 252).  The
\* buttons' initial disabled state is set by markup outside the script.
InitPage ==
  /\ currentMarkdown = <<>>
  /\ previewValue = <<>>
  /\ copyDisabled \in BOOLEAN
  /\ downloadDisabled \in BOOLEAN
  /\ statusClass = StatusPlain
  /\ statusTextContent = Status("Ready", 0)
  /\ metaTextContent = NoMeta
  /\ processing = FALSE
  /\ fileInputValue = FALSE
  /\ inflight = {}
  /\ nextId = 0
  /\ lastWriter = 0
  /\ clipboard = <<>>
  /\ downloaded = <<>>
  /\ copying = {}
  /\ lastEnd = "none"
  /\ ret = <<>>
  /\ phase = "page"

Init == InitPage /\ arg = <<>>

Next ==
  \/ \E file \in Files : Drop(file)
  \/ \E file \in Files : Change(file)
  \/ \E inv \in inflight : ResumeText(inv)
  \/ \E inv \in inflight : ResumeLoad(inv)
  \/ \E inv \in inflight : ResumeEntry(inv)
  \/ CopyClick
  \/ \E text \in copying, resolved \in BOOLEAN : CopySettle(text, resolved)
  \/ DownloadClick

Spec == Init /\ [][Next]_vars

-----------------------------------------------------------------------------
(* SpecCleanup: cleanupText applied once, then again, to every string of   *)
(* at most MaxLen characters over backslash, period, hyphen and a letter.  *)

MaxLen == 4

CleanupChars == {BS, ".", "-", "a"}

Strings(chars, n) == UNION {[1..k -> chars] : k \in 0..n}

InitPure ==
  /\ currentMarkdown = <<>>
  /\ previewValue = <<>>
  /\ copyDisabled = TRUE
  /\ downloadDisabled = TRUE
  /\ statusClass = StatusPlain
  /\ statusTextContent = Status("Ready", 0)
  /\ metaTextContent = NoMeta
  /\ processing = FALSE
  /\ fileInputValue = FALSE
  /\ inflight = {}
  /\ nextId = 0
  /\ lastWriter = 0
  /\ clipboard = <<>>
  /\ downloaded = <<>>
  /\ copying = {}
  /\ lastEnd = "none"
  /\ ret = <<>>

InitCleanup ==
  /\ InitPure
  /\ arg \in Strings(CleanupChars, MaxLen)
  /\ phase = "cleanup"

CleanupOnce ==
  /\ phase = "cleanup"
  /\ ret' = <<CleanupText(arg)>>
  /\ phase' = "cleaned"
  /\ UNCHANGED <<uiVars, arg>>

CleanupAgain ==
  /\ phase = "cleaned"
  /\ ret' = Append(ret, CleanupText(ret[1]))
  /\ phase' = "cleaned twice"
  /\ UNCHANGED <<uiVars, arg>>

NextCleanup == CleanupOnce \/ CleanupAgain

SpecCleanup == InitCleanup /\ [][NextCleanup]_vars

-----------------------------------------------------------------------------
(* SpecText: getEntryText applied to one entry, over every text of at most *)
(* MaxTextLen characters and every richText of at most MaxParts parts.     *)

MaxTextLen == 3
MaxParts == 2

TextChars == {SP, "a", BS, "."}

TextValues ==
  {TextUndefined, TextNonString} \cup {TextStr(str) : str \in Strings(TextChars, MaxTextLen)}

PartValues ==
  {TextUndefined, TextNonString, TextStr(<<>>)} \cup {TextStr(<<c>>) : c \in TextChars}

RichValues ==
  {RichUndefined, RichNonString, RichBlank, RichInvalid, RichNoContents}
    \cup {RichJson(contents) : contents \in Strings(PartValues, MaxParts)}

InitText ==
  /\ InitPure
  /\ arg \in {Entry(Undefined, Undefined, t, r) : t \in TextValues, r \in RichValues}
  /\ phase = "entry"

ApplyGetEntryText ==
  /\ phase = "entry"
  /\ ret' = GetEntryText(arg)
  /\ phase' = "body"
  /\ UNCHANGED <<uiVars, arg>>

NextText == ApplyGetEntryText

SpecText == InitText /\ [][NextText]_vars

-----------------------------------------------------------------------------
(* SpecRender: toMarkdown, then the rest of processFile's try block, on    *)
(* every sequence of at most MaxEntries entries.                            *)

MaxEntries == 3

CreationDates == {Undefined, EmptyString, Garbage, IsoBadMonth, IsoA, IsoB, IsoPre}
ModifiedDates == {Undefined, IsoB}

RenderEntries ==
  {NullEntry} \cup
  {PlainEntry(c, m, <<"a">>) : c \in CreationDates, m \in ModifiedDates}

InitRender ==
  /\ InitPure
  /\ arg \in Strings(RenderEntries, MaxEntries)
  /\ phase = "entries"

\* toMarkdown(entries), keeping its intermediate `sorted`
ApplyToMarkdown ==
  /\ phase = "entries"
  /\ ret' = [sorted |-> SortEntries(arg), md |-> ToMarkdown(arg),
             outcome |-> Failure("")]
  /\ phase' = "rendered"
  /\ UNCHANGED <<uiVars, arg>>

\* processFile lines 120-139 on the document {entries}
ApplyConvert ==
  /\ phase = "rendered"
  /\ ret' = [ret EXCEPT !.outcome = Convert(Journal(arg))]
  /\ phase' = "converted"
  /\ UNCHANGED <<uiVars, arg>>

NextRender == ApplyToMarkdown \/ ApplyConvert

SpecRender == InitRender /\ [][NextRender]_vars

-----------------------------------------------------------------------------
(* SpecLocator: the page with one .zip file to select, over every archive  *)
(* of at most MaxStreams distinct stream names.                             *)

MaxStreams == 3

StreamNames ==
  { <<"J", "o", "u", "r", "n", "a", "l", ".", "j", "s", "o", "n">>,
    <<"E", "/", "J", "o", "u", "r", "n", "a", "l", ".", "j", "s", "o", "n">>,
    <<"f", "/", "J", "O", "U", "R", "N", "A", "L", ".", "J", "S", "O", "N">>,
    <<"m", "y", "j", "o", "u", "r", "n", "a", "l", ".", "j", "s", "o", "n">>,
    <<"j", "o", "u", "r", "n", "a", "l", ".", "j", "s", "o", "n", ".", "b", "a", "k">>,
    <<"J", "O", "U", "R", "N", "A", "L", ".", "J", "S", "O", "N">> }

\* Each stream holds a one-entry journal whose body is the stream's name.
StreamOf(name) ==
  Stream(name, TRUE, Journal(<<PlainEntry(IsoA, Undefined, name)>>))

Archives ==
  {[i \in 1..Len(names) |-> StreamOf(names[i])] :
     names \in {ns \in Strings(StreamNames, MaxStreams) :
                  \A i, j \in 1..Len(ns) : i # j => ns[i] # ns[j]}}

InitLocator ==
  /\ InitPage
  /\ copyDisabled /\ downloadDisabled
  /\ arg \in {ZipFile(<<"x", ".", "z", "i", "p">>, TRUE, archive) : archive \in Archives}

NextLocator ==
  \/ Drop(arg)
  \/ Change(arg)
  \/ \E inv \in inflight : ResumeLoad(inv)
  \/ \E inv \in inflight : ResumeEntry(inv)

SpecLocator == InitLocator /\ [][NextLocator]_vars

-----------------------------------------------------------------------------
(* What the claims speak of, stated apart from the code's own computation *)

IsValidIso(v) ==
  /\ v.tag = "iso"
  /\ v.M >= 1 /\ v.M <= 12 /\ v.D >= 1 /\ v.D <= DaysInMonth(v.Y, v.M)
  /\ v.h < 24 /\ v.m < 60 /\ v.s < 60

RECURSIVE DaysToYear(_)
\* Days from 1970-01-01 to the first day of year y, counted year by year
DaysToYear(y) ==
  IF y = 1970 THEN 0
  ELSE IF y > 1970 THEN DaysToYear(y - 1) + (IF IsLeap(y - 1) THEN 366 ELSE 365)
  ELSE DaysToYear(y + 1) - (IF IsLeap(y) THEN 366 ELSE 365)

RECURSIVE DaysToMonth(_, _)
DaysToMonth(y, mo) ==
  IF mo = 1 THEN 0 ELSE DaysToMonth(y, mo - 1) + DaysInMonth(y, mo - 1)

\* The instant an ISO date string names
InstantOf(v) ==
  (DaysToYear(v.Y) + DaysToMonth(v.Y, v.M) + v.D - 1) * 86400
    + v.h * 3600 + v.m * 60 + v.s

TwoDigits(n) == <<DigitChar(n \div 10), DigitChar(n % 10)>>

\* "yyyy-mm-dd hh-mm-ss" of the fields of an ISO date string
HeaderOf(v) ==
  TwoDigits(v.Y \div 100) \o TwoDigits(v.Y % 100) \o <<"-">> \o TwoDigits(v.M)
    \o <<"-">> \o TwoDigits(v.D) \o <<" ">> \o TwoDigits(v.h) \o <<"-">>
    \o TwoDigits(v.m) \o <<"-">> \o TwoDigits(v.s)

\* The header of a rendered block "# <header>\n\n<body>"
BlockHeader(block) == SubSeq(block, 3, 21)

\* The date field the code reads: creationDate unless it is absent or empty
ChosenDate(e) == IF e.creationDate.tag \in {"undefined", "empty"}
                 THEN e.modifiedDate ELSE e.creationDate

Rendered == phase \in {"rendered", "converted"}

-----------------------------------------------------------------------------
(* C1, as stated: the instant of an entry is its parsed creationDate if    *)
(* that is present and parseable, otherwise its parsed modifiedDate if     *)
(* that is present and parseable, otherwise the epoch; an unparseable      *)
(* creationDate with a valid modifiedDate resolves to the modifiedDate.    *)
C1_FallbackOnUnparseable ==
  Rendered =>
    \A i \in 1..Len(ret.sorted) :
      LET e == ret.sorted[i]
          want == IF IsValidIso(e.creationDate) THEN InstantOf(e.creationDate)
                  ELSE IF IsValidIso(e.modifiedDate) THEN InstantOf(e.modifiedDate)
                  ELSE 0
          head == IF IsValidIso(e.creationDate) THEN HeaderOf(e.creationDate)
                  ELSE IF IsValidIso(e.modifiedDate) THEN HeaderOf(e.modifiedDate)
                  ELSE EpochHeader
      IN  ~e.nul =>
            /\ ParseDate(e) = want
            /\ ~ret.md.threw => BlockHeader(ret.md.sections[i]) = head

(* C1, amended: the date read is creationDate unless that is absent or     *)
(* empty, and then modifiedDate; the instant used for sorting and the      *)
(* header are those of the date read if it parses, and the epoch           *)
(* otherwise, so an unparseable non-empty creationDate resolves to the     *)
(* epoch whatever modifiedDate holds.                                      *)
C1_FirstPresentDate ==
  Rendered =>
    \A i \in 1..Len(ret.sorted) :
      LET e == ret.sorted[i]
          chosen == ChosenDate(e)
      IN  ~e.nul =>
            /\ ParseDate(e) = IF IsValidIso(chosen) THEN InstantOf(chosen) ELSE 0
            /\ ~ret.md.threw =>
                 BlockHeader(ret.md.sections[i]) =
                   IF IsValidIso(chosen) THEN HeaderOf(chosen) ELSE EpochHeader

\* An entry with an unparseable creationDate and a valid modifiedDate was
\* rendered under the epoch header, next to one dated by its modifiedDate.
C1_Witness ==
  /\ Rendered /\ ~ret.md.threw
  /\ \E i, j \in 1..Len(ret.sorted) :
       /\ ret.sorted[i].creationDate = Garbage
       /\ ret.sorted[i].modifiedDate = IsoB
       /\ BlockHeader(ret.md.sections[i]) = EpochHeader
       /\ ret.sorted[j].creationDate = Undefined
       /\ ret.sorted[j].modifiedDate = IsoB
       /\ BlockHeader(ret.md.sections[j]) = HeaderOf(IsoB)

-----------------------------------------------------------------------------
\* The entries of seq whose instant is t, in order
AtInstant(seq, t) ==
  LET Test(e) == ParseDate(e) = t IN SelectSeq(seq, Test)

(* C2: the sorted entries are in non-decreasing order of instant, entries  *)
(* of equal instant keep their input order, and the blocks are the sorted  *)
(* entries' blocks in that order.                                          *)
C2_StableAscending ==
  Rendered =>
    /\ Len(ret.sorted) = Len(arg)
    /\ \A i, j \in 1..Len(ret.sorted) :
         i < j => ParseDate(ret.sorted[i]) <= ParseDate(ret.sorted[j])
    /\ \A k \in 1..Len(arg) :
         AtInstant(ret.sorted, ParseDate(arg[k])) = AtInstant(arg, ParseDate(arg[k]))
    /\ ~ret.md.threw =>
         /\ Len(ret.md.sections) = Len(ret.sorted)
         /\ \A i \in 1..Len(ret.sorted) :
              ret.md.sections[i] = Section(ret.sorted[i])

\* A dated entry followed by two different entries sharing the epoch
\* sentinel (an unparseable date, no date) was rendered after them, and
\* they in their input order.
C2_Witness ==
  /\ Rendered /\ ~ret.md.threw
  /\ Len(arg) = 3
  /\ arg[1].creationDate = IsoA
  /\ arg[2].creationDate = Garbage
  /\ arg[3].creationDate = Undefined /\ arg[3].modifiedDate = Undefined
  /\ ret.sorted = <<arg[2], arg[3], arg[1]>>

-----------------------------------------------------------------------------
NoDates(e) == ~e.nul /\ e.creationDate = Undefined /\ e.modifiedDate = Undefined
HasValidDate(e) == ~e.nul /\ IsValidIso(ChosenDate(e))

(* C3, as stated: an entry with neither date comes before every entry with *)
(* a valid date, dates before 1970 included, under the epoch header.       *)
C3_SentinelFirst ==
  Rendered =>
    \A i, j \in 1..Len(ret.sorted) :
      NoDates(ret.sorted[i]) =>
        /\ HasValidDate(ret.sorted[j]) => i < j
        /\ ~ret.md.threw => BlockHeader(ret.md.sections[i]) = EpochHeader

(* C3, amended: an entry with neither date renders under the epoch header  *)
(* and comes before every entry whose valid date is after                  *)
(* 1970-01-01T00:00:00Z, and after every entry whose valid date is before  *)
(* it.                                                                     *)
C3_SentinelAtEpoch ==
  Rendered =>
    \A i, j \in 1..Len(ret.sorted) :
      NoDates(ret.sorted[i]) =>
        /\ (HasValidDate(ret.sorted[j]) /\ InstantOf(ChosenDate(ret.sorted[j])) > 0)
             => i < j
        /\ (HasValidDate(ret.sorted[j]) /\ InstantOf(ChosenDate(ret.sorted[j])) < 0)
             => j < i
        /\ ~ret.md.threw => BlockHeader(ret.md.sections[i]) = EpochHeader

\* An entry without dates, first in the input, was rendered after an entry
\* dated 1969-12-31T23:59:59Z.
C3_Witness ==
  /\ Rendered /\ ~ret.md.threw
  /\ Len(arg) = 2
  /\ NoDates(arg[1]) /\ arg[2].creationDate = IsoPre
  /\ ret.sorted = <<arg[2], arg[1]>>
  /\ BlockHeader(ret.md.sections[2]) = EpochHeader
  /\ BlockHeader(ret.md.sections[1]) = HeaderOf(IsoPre)

-----------------------------------------------------------------------------
(* C4: for N >= 1 entries of any shape, a null element included, rendering *)
(* raises no error and yields exactly N blocks, and the conversion         *)
(* succeeds.                                                               *)
C4_EveryEntryRendered ==
  (phase = "converted" /\ Len(arg) >= 1) =>
    /\ ~ret.md.threw
    /\ Len(ret.md.sections) = Len(arg)
    /\ ret.outcome.ok

-----------------------------------------------------------------------------
(* C10: on a successful conversion the summary's first and last timestamps *)
(* are the headers of the first and last rendered blocks, and its count is *)
(* the number of blocks.                                                   *)
C10_SummaryMatchesHeaders ==
  (phase = "converted" /\ ret.outcome.ok) =>
    /\ ret.outcome.count = Len(ret.md.sections)
    /\ ret.outcome.first = BlockHeader(ret.md.sections[1])
    /\ ret.outcome.last = BlockHeader(ret.md.sections[Len(ret.md.sections)])

-----------------------------------------------------------------------------
RECURSIVE ConcatParts(_)
\* Each part's text, absent text counted as empty, concatenated in order
ConcatParts(contents) ==
  IF contents = <<>> THEN <<>>
  ELSE (IF Head(contents).tag = "str" THEN Head(contents).chars ELSE <<>>)
         \o ConcatParts(Tail(contents))

(* C5: the body is the cleaned-up trimmed text when text is a string that  *)
(* is non-empty after trimming; otherwise the cleaned-up trimmed           *)
(* concatenation of the parts' texts when richText parses to a value with  *)
(* a contents sequence and that concatenation is non-empty; otherwise      *)
(* "[No content]" (so too when richText fails to parse); it is never empty *)
(* or whitespace-only.                                                     *)
C5_BodyRules ==
  phase = "body" =>
    LET text == arg.text
        rich == arg.richText
        hasText == text.tag = "str" /\ Trim(text.chars) # <<>>
        joined == Trim(ConcatParts(rich.contents))
        hasRich == rich.tag = "json" /\ rich.isArray /\ joined # <<>>
    IN  /\ hasText => ret = CleanupText(Trim(text.chars))
        /\ (~hasText /\ hasRich) => ret = CleanupText(joined)
        /\ (~hasText /\ rich.tag = "invalid") => ret = NoContent
        /\ (~hasText /\ ~hasRich) => ret = NoContent
        /\ Trim(ret) # <<>>
        /\ ret = Trim(ret)

\* A blank text and a richText of two parts, a backslash and a period,
\* gave the body ".".
C5_Witness ==
  /\ phase = "body"
  /\ arg.text = TextStr(<<SP>>)
  /\ arg.richText = RichJson(<<TextStr(<<BS>>), TextStr(<<".">>)>>)
  /\ ret = <<".">>

-----------------------------------------------------------------------------
(* C6, as stated: cleaning up twice equals cleaning up once, for every     *)
(* string, runs of backslashes before a period or hyphen included.         *)
C6_Idempotent ==
  phase = "cleaned twice" => ret[2] = ret[1]

\* A backslash followed by a backslash followed by a period or hyphen
HasDoubledEscape(str) ==
  \E i \in 1..(Len(str) - 2) :
    str[i] = BS /\ str[i + 1] = BS /\ str[i + 2] \in {".", "-"}

(* C6, amended: cleaning up twice equals cleaning up once for every string *)
(* in which no backslash is followed by a backslash that is followed by a  *)
(* period or hyphen.                                                       *)
C6_IdempotentUnlessDoubled ==
  (phase = "cleaned twice" /\ ~HasDoubledEscape(arg)) => ret[2] = ret[1]

\* "\.\-" was cleaned to ".-", and again to ".-".
C6_Witness ==
  /\ phase = "cleaned twice"
  /\ arg = <<BS, ".", BS, "-">>
  /\ ret = << <<".", "-">>, <<".", "-">> >>

-----------------------------------------------------------------------------
StreamNamesOf(file) == [i \in 1..Len(file.archive) |-> file.archive[i].name]

Qualifies(name) == EndsWith(ToLowerCase(name), JournalJson)

\* names[k] qualifies, no qualifying name is shorter, and no qualifying name
\* of the same length comes before it
IsSelection(names, k) ==
  /\ Qualifies(names[k])
  /\ \A j \in 1..Len(names) :
       Qualifies(names[j]) =>
         \/ Len(names[k]) < Len(names[j])
         \/ (Len(names[k]) = Len(names[j]) /\ k <= j)

(* C7: the stream selected is a qualifying one of minimal name length, the *)
(* first such in enumeration order, and it is the one read; when none      *)
(* qualifies nothing is selected and the conversion ends with the          *)
(* document-not-found error and no output.                                 *)
C7_ShortestFirstCandidate ==
  LET names == StreamNamesOf(arg)
      none  == \A j \in 1..Len(names) : ~Qualifies(names[j])
  IN  /\ \A inv \in inflight :
           inv.pc = "entry" =>
             \E k \in 1..Len(names) : names[k] = inv.stream /\ IsSelection(names, k)
      /\ lastEnd = "success" =>
           \E k \in 1..Len(names) :
             /\ IsSelection(names, k)
             /\ currentMarkdown = ToMarkdown(arg.archive[k].journal.entries).markdown
      /\ lastEnd = "error" =>
           /\ none
           /\ statusClass = StatusError
           /\ statusTextContent = Status(NoJournalInZip, 0)
           /\ currentMarkdown = <<>>
      /\ none => \A inv \in inflight : inv.pc = "load"

\* Of three qualifying streams the second, shorter than the first and listed
\* before another of its own length, was read and rendered.
C7_Witness ==
  /\ lastEnd = "success"
  /\ Len(arg.archive) = 3
  /\ Len(arg.archive[1].name) > Len(arg.archive[2].name)
  /\ Len(arg.archive[2].name) = Len(arg.archive[3].name)
  /\ \A k \in 1..3 : Qualifies(arg.archive[k].name)
  /\ currentMarkdown = ToMarkdown(arg.archive[2].journal.entries).markdown

-----------------------------------------------------------------------------
(* C8: in the state reached when an attempt ends in error the held output  *)
(* is empty (currentMarkdown, the preview), copy and download are          *)
(* disabled, the status is the error state with a message, and a copy or   *)
(* download click in that state emits nothing.                             *)
C8_ErrorClearsOutput ==
  /\ [](lastEnd = "error" =>
          /\ currentMarkdown = <<>>
          /\ previewValue = <<>>
          /\ copyDisabled /\ downloadDisabled
          /\ statusClass = StatusError
          /\ statusTextContent.msg # "")
  /\ [][lastEnd = "error" => (copying' \subseteq copying /\ downloaded' = downloaded)]_vars

\* An attempt ended in error after an earlier conversion had succeeded and
\* its output had been downloaded.
C8_Witness ==
  /\ lastEnd = "error"
  /\ downloaded # <<>>
  /\ currentMarkdown = <<>>

-----------------------------------------------------------------------------
(* C9: at most one processFile invocation is in flight at any time, and    *)
(* the output and status shown are never those of an invocation started    *)
(* before another that has already ended.                                  *)
C9_OneConversionAtATime ==
  /\ Cardinality(inflight) <= 1
  /\ \A id \in 1..nextId :
       (\A inv \in inflight : inv.id # id) => id <= lastWriter

====
